---- MODULE Spec2Model ----
(***************************************************************************)
(* Model of NUTConfigurator (src/src/nut_configurator.cc): candidate       *)
(* classification by regular expressions, selectBest, configure(),         *)
(* erase() and commit().                                                   *)
(*                                                                         *)
(* A text (std::string) is a sequence of tokens.  A token is a maximal run *)
(* of characters that no pattern of the source looks into: one blank, one  *)
(* quote, one bracket, one newline, "=", or a word.  Words hold no blank,  *)
(* quote, bracket, "=" or newline, so a pattern matches the characters of  *)
(* a text exactly when the operator below matches its tokens.              *)
(***************************************************************************)
EXTENDS Integers, Sequences, FiniteSets, TLC

\* ------------------------------------------------------------ bounds
\* longest candidate list the probing step hands to selectBest
MaxConfigs == 2
\* longest upsconf_block (in characters) of the exhaustive block inputs
MaxBlockLen == 3

\* ------------------------------------------------------------ texts
QUOTE == "\""
NL == "\n"
TAB == "\t"
SP == " "
NUL == "\\0"

NUT_PART_STORE == "/var/lib/fty/fty-nut/devices"

\* [[:blank:]]
IsBlank(c) == c \in {SP, TAB}

\* REG_ICASE: the lower-case form of a word (the words of the model that
\* carry upper-case letters are listed; every other word is lower-case)
Lower(w) ==
    CASE w = "ePDU" -> "epdu"
      [] w = "PW" -> "pw"
      [] w = "Eaton" -> "eaton"
      [] w = "G3" -> "g3"
      [] w = "aphel_genesisII" -> "aphel_genesisii"
      [] w = "MyEpduX" -> "myepdux"
      [] w = "UPS" -> "ups"
      [] w = "A" -> "a"
      [] w = "B" -> "b"
      [] OTHER -> w

\* [[:blank:]]* from position i of s on: the position after the blanks
\* ("=" and the quote are no blanks, so a run of blanks is consumed whole)
RECURSIVE SkipBlanks(_, _)
SkipBlanks(s, i) ==
    IF i <= Len(s) /\ IsBlank(s[i]) THEN SkipBlanks(s, i + 1) ELSE i

\* [[:blank:]]{min,}" between the positions from and q: the position after
\* the quote, 0 when there is no match
OpenQuote(s, from, q, min) ==
    IF q - from >= min /\ q <= Len(s) /\ s[q] = QUOTE THEN q + 1 ELSE 0

\* [[:blank:]]{min,}=[[:blank:]]{min,}" between the positions from and e
EqQuote(s, from, e, min) ==
    IF e - from >= min /\ e <= Len(s) /\ s[e] = "="
    THEN OpenQuote(s, e + 1, SkipBlanks(s, e + 1), min)
    ELSE 0

\* [[:blank:]]key[[:blank:]]{min,}=[[:blank:]]{min,}" matched at position i
\* of s: the position after the opening quote, 0 when there is no match
KeyEq(s, i, key, min) ==
    IF i + 1 <= Len(s) /\ IsBlank(s[i]) /\ Lower(s[i + 1]) = key
    THEN EqQuote(s, i + 2, SkipBlanks(s, i + 2), min)
    ELSE 0

\* value" at position p: one word out of vals, then the closing quote
ValueIn(s, p, vals) ==
    p > 0 /\ p + 1 <= Len(s) /\ Lower(s[p]) \in vals /\ s[p + 1] = QUOTE

\* [[:blank:]]driver[[:blank:]]+=[[:blank:]]+"netxml-ups"
NUTConfigXMLPattern(s) ==
    \E i \in 1..Len(s) : ValueIn(s, KeyEq(s, i, "driver", 1), {"netxml-ups"})

\* the MIB names the EPDU pattern enumerates
EpduMibs ==
    {"eaton_epdu", "aphel_genesisii", "aphel_revelation",
     "pulizzi_switched1", "pulizzi_switched2", "emerson_avocent_pdu"}

\* the words of the model that contain "epdu" (REG_ICASE)
HasEpdu(w) == Lower(w) \in {"epdu", "myepdux", "eaton_epdu"}

\* a description pattern that takes "epdu" anywhere in the value
DescEpdu_Anywhere(s, p) ==
    p > 0 /\
    \E m \in p..Len(s) :
        /\ s[m] = QUOTE
        /\ \A j \in p..(m - 1) : s[j] # QUOTE
        /\ \E k \in p..(m - 1) : HasEpdu(s[k])

\* "[^"]+ epdu [^"]+" from position p (after the opening quote): at least
\* one character, a space, epdu, a space, at least one character, the
\* closing quote, and no quote in between
DescEpdu(s, p) ==
    p > 0 /\
    \E k \in (p + 2)..Len(s) : \E m \in (k + 3)..Len(s) :
        /\ s[k - 1] = SP /\ Lower(s[k]) = "epdu" /\ s[k + 1] = SP
        /\ s[m] = QUOTE
        /\ \A j \in p..(m - 1) : s[j] # QUOTE

\* [[:blank:]](mibs[[:blank:]]+=[[:blank:]]+"(eaton_epdu|...)"|
\*             desc[[:blank:]]+=[[:blank:]]+"[^"]+ epdu [^"]+")
NUTConfigEpduPattern(s) ==
    \E i \in 1..Len(s) :
        \/ ValueIn(s, KeyEq(s, i, "mibs", 1), EpduMibs)
        \/ DescEpdu(s, KeyEq(s, i, "desc", 1))

\* [[:blank:]]driver[[:blank:]]+=[[:blank:]]+"snmp-ups(-old|-dmf)?"
NUTConfigCanSnmpPattern(s) ==
    \E i \in 1..Len(s) :
        ValueIn(s, KeyEq(s, i, "driver", 1),
                {"snmp-ups", "snmp-ups-old", "snmp-ups-dmf"})

\* the words of the model that contain "ats" (REG_ICASE)
HasAts(w) == Lower(w) \in {"ats", "eaton_ats16", "eaton_ats30", "apc_ats"}

\* [^"]*ats[^"]*" from position p (after the opening quote)
AtsValue(s, p) ==
    p > 0 /\
    \E m \in p..Len(s) :
        /\ s[m] = QUOTE
        /\ \A j \in p..(m - 1) : s[j] # QUOTE
        /\ \E k \in p..(m - 1) : HasAts(s[k])

\* [[:blank:]]mibs[[:blank:]]*=[[:blank:]]*"[^"]*ats[^"]*"
NUTConfigATSPattern(s) ==
    \E i \in 1..Len(s) : AtsValue(s, KeyEq(s, i, "mibs", 0))

\* <mib>" from position p (after the opening quote)
MibValue(s, p, mib) ==
    IF mib = ".+"
    THEN p > 0 /\ \E m \in (p + 1)..Len(s) : s[m] = QUOTE
    ELSE ValueIn(s, p, {mib})

\* .+[[:blank:]]mibs[[:blank:]]+=[[:blank:]]+"<mib>" for the entries of
\* snmpMibPriority; ".+" is any non-empty run of characters ("." matches
\* every character, the quote and the newline included)
MibPattern(s, mib) ==
    \E i \in 2..Len(s) : MibValue(s, KeyEq(s, i, "mibs", 1), mib)

\* the patterns, by name
Matches(s, pattern) ==
    CASE pattern = "NUTConfigXMLPattern" -> NUTConfigXMLPattern(s)
      [] pattern = "NUTConfigEpduPattern" -> NUTConfigEpduPattern(s)
      [] pattern = "NUTConfigCanSnmpPattern" -> NUTConfigCanSnmpPattern(s)
      [] pattern = "NUTConfigATSPattern" -> NUTConfigATSPattern(s)
      [] OTHER -> MibPattern(s, pattern)

\* ------------------------------------------------------------ Classifier
\* iterators are positions: begin() is 1, end() is Len + 1
End(texts) == Len(texts) + 1

\* lines 64-71: the loop of stringMatch from the iterator it on
RECURSIVE FirstMatch(_, _, _)
FirstMatch(texts, pattern, it) ==
    IF it = End(texts) THEN End(texts)
    ELSE IF Matches(texts[it], pattern) THEN it
         ELSE FirstMatch(texts, pattern, it + 1)

stringMatch(texts, pattern) == FirstMatch(texts, pattern, 1)

match(texts, pattern) == stringMatch(texts, pattern) # End(texts)

isEpdu(texts) == match(texts, "NUTConfigEpduPattern")

isAts(texts) == match(texts, "NUTConfigATSPattern")

isUps(texts) == ~(isEpdu(texts) \/ isAts(texts))

canSnmp(texts) == match(texts, "NUTConfigCanSnmpPattern")

canXml(texts) == match(texts, "NUTConfigXMLPattern")

\* ------------------------------------------------------------ Selector
\* a priority list with no catch-all entry
snmpMibPriority_NoCatchAll == <<"pw", "mge">>

\* a priority list that puts MGE before PowerWare
snmpMibPriority_MgeFirst == <<"mge", "pw", ".+">>

\* lines 100-102
snmpMibPriority == <<"pw", "mge", ".+">>

RECURSIVE BestMibFrom(_, _)
BestMibFrom(configs, k) ==
    IF k > Len(snmpMibPriority) THEN End(configs)
    ELSE LET it == stringMatch(configs, snmpMibPriority[k])
         IN  IF it # End(configs) THEN it ELSE BestMibFrom(configs, k + 1)

getBestSnmpMib(configs) == BestMibFrom(configs, 1)

\* a selectBest that classifies a single candidate like any other list
selectBest_NoFastPath(configs) ==
    IF Len(configs) = 0 THEN 1
    ELSE IF canSnmp(configs) /\ (isEpdu(configs) \/ isAts(configs))
         THEN getBestSnmpMib(configs)
         ELSE IF canXml(configs)
              THEN stringMatch(configs, "NUTConfigXMLPattern")
              ELSE getBestSnmpMib(configs)

\* a selectBest that prefers SNMP for every kind of device
selectBest_SnmpFirst(configs) ==
    IF Len(configs) <= 1 THEN 1
    ELSE IF canSnmp(configs)
         THEN getBestSnmpMib(configs)
         ELSE IF canXml(configs)
              THEN stringMatch(configs, "NUTConfigXMLPattern")
              ELSE getBestSnmpMib(configs)

\* NUTConfigurator::selectBest
selectBest(configs) ==
    IF Len(configs) <= 1 THEN 1
    ELSE IF canSnmp(configs) /\ (isEpdu(configs) \/ isAts(configs))
         THEN getBestSnmpMib(configs)
         ELSE IF canXml(configs)
              THEN stringMatch(configs, "NUTConfigXMLPattern")
              ELSE getBestSnmpMib(configs)

\* ------------------------------------------------------------ inputs
\* the devices (asset names) of the model
Devices == {"ups1", "dev1"}

ServiceOf(name) == "nut-driver@" \o name

\* candidate texts as the probing step prints them: a bracketed device
\* tag, then one line <TAB>key = "value" per field
Hdr(name) == <<"[", name, "]", NL>>

Line(key, val) == <<TAB, key, SP, "=", SP, QUOTE>> \o val \o <<QUOTE, NL>>

\* the same line with no blank around "="
TightLine(key, val) == <<TAB, key, "=", QUOTE>> \o val \o <<QUOTE, NL>>

OptLine(key, val) == IF val = <<>> THEN <<>> ELSE Line(key, val)

MkCand(name, driver, desc, mibs) ==
    Hdr(name) \o OptLine("driver", driver) \o OptLine("desc", desc)
              \o OptLine("mibs", mibs)

EpduDesc == <<"Eaton", SP, "ePDU", SP, "G3">>

\* candidates the selection is exercised on
ScanDrivers == {<<"snmp-ups">>, <<"netxml-ups">>}
ScanDescs == {<<>>, EpduDesc}
ScanMibs ==
    {<<>>, <<"pw">>, <<"mge">>, <<"ietf">>, <<"eaton_epdu">>, <<"eaton_ats16">>}

Candidates(name) ==
    {MkCand(name, d, e, m) : d \in ScanDrivers, e \in ScanDescs, m \in ScanMibs}
    \cup {MkCand(name, <<"snmp-ups-dmf">>, <<>>, <<"PW">>),
          MkCand(name, <<"snmp-ups-old">>, <<"epdu">>, <<"mge">>),
          MkCand(name, <<"dummy-ups">>, <<>>, <<>>),
          Hdr(name) \o Line("driver", <<"snmp-ups">>)
                    \o TightLine("mibs", <<"eaton_ats16">>)}

\* candidates the classification is exercised on: descriptions with epdu
\* in the middle, alone, first, last, inside a word and absent; MIBs of the
\* EPDU pattern, another one and none; a MIB line with no blank around "="
ClassifyDescs ==
    {<<>>, EpduDesc, <<"ePDU">>, <<"ePDU", SP, "G3">>, <<"Eaton", SP, "ePDU">>,
     <<"Eaton", SP, "MyEpduX", SP, "G3">>, <<"Eaton", SP, "UPS">>}

ClassifyMibs == {<<>>, <<"eaton_epdu">>, <<"aphel_genesisII">>, <<"pw">>}

ClassifyCandidates(name) ==
    {MkCand(name, <<"snmp-ups">>, e, m) : e \in ClassifyDescs, m \in ClassifyMibs}
    \cup {Hdr(name) \o TightLine("mibs", <<"eaton_epdu">>)}

\* all sequences over S of length at most n
RECURSIVE SeqsUpTo(_, _)
SeqsUpTo(S, n) ==
    IF n = 0 THEN {<<>>}
    ELSE LET shorter == SeqsUpTo(S, n - 1)
         IN  shorter \cup {Append(q, x) : q \in {r \in shorter : Len(r) = n - 1}, x \in S}

\* ------------------------------------------------------------ state
VARIABLES
    files,            \* the device store: device name -> text of its file
    start_drivers_,   \* NUTConfigurator::start_drivers_
    stop_drivers_,    \* NUTConfigurator::stop_drivers_
    calls,            \* subprocesses run by the most recent call, in order
    last,             \* the most recent configure()/erase() call: its
                      \* arguments, what it read and what it returned
    candidates,       \* argument of a stand-alone selectBest call
    best,             \* its result (0: not called yet)
    verdict,          \* result of a stand-alone isEpdu call on candidates
                      \* (<<>>: not called yet)
    written,          \* history: the services of the devices whose file a
                      \* configure() has written since the last commit()
    failed,           \* history: those of the devices whose file a
                      \* configure() has failed to write since then
    erased,           \* history: those of the devices erase() was called
                      \* on since then
    pc,               \* unserialized calls: the line the thread that runs
                      \* commit() stands at, the line the thread that runs
                      \* configure()/erase() stands at, and its device
    lost,             \* history: the services a commit() has cleared from
                      \* start_drivers_ without having restarted them
    overlap           \* history: a commit() and a configure()/erase() have
                      \* been under way at the same time

\* the variables of the unserialized calls
threads == <<pc, lost, overlap>>

vars == <<files, start_drivers_, stop_drivers_, calls, last, candidates, best,
          verdict, written, failed, erased, pc, lost, overlap>>

\* no call under way (0: the thread stands in no call)
Idle == [commit |-> 0, worker |-> 0, name |-> ""]

NoCall ==
    [op |-> "none", name |-> "", hasBlock |-> FALSE, block |-> <<>>, IP |-> "",
     configs |-> <<>>, polling |-> "", it |-> 0, cfg |-> <<>>,
     opened |-> FALSE,
     wrote |-> FALSE, ret |-> "", flip |-> FALSE]

\* ------------------------------------------------------------ configure
\* lines 229-249: the candidate of an asset that brings its upsconf_block.
\* UBA is a text of one-character tokens; std::string::at throws
\* std::out_of_range past the last character.
BlockThrows(UBA) == Len(UBA) = 0 \/ (UBA[1] # NUL /\ Len(UBA) = 1)

Replace(s, from, to) == [i \in 1..Len(s) |-> IF s[i] = from THEN to ELSE s[i]]

\* a candidate taken from the block with no newline appended
BlockConfigs_NoNewline(name, UBA) ==
    LET SEP == UBA[1]
    IN  IF SEP = NUL \/ UBA[2] = NUL
        THEN << <<"[", name, "]", NL, NL>> >>
        ELSE LET UBN == Replace(SubSeq(UBA, 2, Len(UBA)), SEP, NL)
             IN  IF UBN[1] = "["
                 THEN << UBN >>
                 ELSE << <<"[", name, "]", NL>> \o UBN >>

BlockConfigs(name, UBA) ==
    LET SEP == UBA[1]
    IN  IF SEP = NUL \/ UBA[2] = NUL
        THEN << <<"[", name, "]", NL, NL>> >>
        ELSE LET UBN == Replace(SubSeq(UBA, 2, Len(UBA)), SEP, NL)
             IN  IF UBN[1] = "["
                 THEN << UBN \o <<NL>> >>
                 ELSE << <<"[", name, "]", NL>> \o UBN \o <<NL>> >>

\* lines 281-288: one nut_scan_snmp call per community, each appending what
\* it found, until one returns 0 with a non-empty list; then nut_scan_xml_http
RECURSIVE ScanSnmp(_, _, _)
ScanSnmp(snmp, k, found) ==
    IF k > Len(snmp) THEN found
    ELSE LET now == found \o snmp[k].found
         IN  IF snmp[k].rc = 0 /\ now # <<>> THEN now
             ELSE ScanSnmp(snmp, k + 1, now)

ProbeConfigs(info) == ScanSnmp(info.snmp, 1, <<>>) \o info.xml

\* a rendering that takes an ATS for an EPDU
Render_SyncForAts(text, polling) ==
    LET foo == <<text>>
    IN  text
        \o (IF (isEpdu(foo) \/ isAts(foo)) /\ canSnmp(foo)
            THEN <<TAB, "synchronous", SP, "=", SP, "yes", NL>> ELSE <<>>)
        \o (IF canXml(foo)
            THEN <<TAB, "timeout", SP, "=", SP, "15", NL>> ELSE <<>>)
        \o (IF canSnmp(foo)
            THEN <<TAB, "pollfreq", SP, "=", SP, polling, NL>>
            ELSE <<TAB, "pollinterval", SP, "=", SP, polling, NL>>)

\* lines 303-323: the text written for the selected candidate
Render(text, polling) ==
    LET foo == <<text>>
    IN  text
        \o (IF isEpdu(foo) /\ canSnmp(foo)
            THEN <<TAB, "synchronous", SP, "=", SP, "yes", NL>> ELSE <<>>)
        \o (IF canXml(foo)
            THEN <<TAB, "timeout", SP, "=", SP, "15", NL>> ELSE <<>>)
        \o (IF canSnmp(foo)
            THEN <<TAB, "pollfreq", SP, "=", SP, polling, NL>>
            ELSE <<TAB, "pollinterval", SP, "=", SP, polling, NL>>)

\* zdigest (SHA-1) of a text, taken as collision-free
Sha1(text) == <<"sha1", text>>

NULL == <<>>

\* s_digest(const char* file): NULL when the file cannot be opened
s_digest_file(name, canOpen) ==
    IF name \in DOMAIN files /\ canOpen THEN Sha1(files[name]) ELSE NULL

\* s_digest(const std::stringstream&)
s_digest(cfg) == Sha1(cfg)

\* a write decision that ignores the digests
ShouldWrite_Always(digest_old, digest_new) == TRUE

\* a write decision that never replaces a file it could read
ShouldWrite_OnlyNew(digest_old, digest_new) == digest_old = NULL

\* line 327: the write decision
ShouldWrite(digest_old, digest_new) ==
    digest_old = NULL \/ digest_old # digest_new

\* a configure() that reaches line 327 also when selectBest found nothing
ReachesWrite_Always(early) == TRUE

\* lines 231, 253, 295: configure() reaches line 297 and what follows only
\* when it has not thrown or returned before
ReachesWrite(early) == early = ""

PrepareAt(cfgs, sel, polling) ==
    IF sel = End(cfgs)
    THEN [early |-> "false", configs |-> cfgs, it |-> sel, cfg |-> <<>>]
    ELSE [early |-> "", configs |-> cfgs, it |-> sel,
          cfg |-> Render(cfgs[sel], polling)]

\* lines 291-296 and 303-324 for the candidate list cfgs
PrepareSelected(cfgs, polling) ==
    PrepareAt(cfgs, selectBest(cfgs), polling)

\* lines 222-296 and 303-324, which read nothing but the arguments: the
\* candidate list, the selected candidate and the text to write.  early is
\* the value returned before line 297, "" when configure() goes on.
Prepare(name, info, polling) ==
    IF info.hasBlock /\ BlockThrows(info.block)
    THEN [early |-> "out_of_range", configs |-> <<>>, it |-> 0, cfg |-> <<>>]
    ELSE IF ~info.hasBlock /\ info.IP = ""
    THEN [early |-> "true", configs |-> <<>>, it |-> 0, cfg |-> <<>>]
    ELSE PrepareSelected(IF info.hasBlock THEN BlockConfigs(name, info.block)
                         ELSE ProbeConfigs(info), polling)

\* ------------------------------------------------------------ erase
\* NUTConfigurator::erase(name)
erase(name) ==
    /\ files' = [d \in DOMAIN files \ {name} |-> files[d]]
    /\ stop_drivers_' = stop_drivers_ \cup {ServiceOf(name)}
    /\ last' = [NoCall EXCEPT !.op = "erase", !.name = name,
                              !.flip = ~last.flip]
    /\ calls' = <<>>
    /\ erased' = erased \cup {ServiceOf(name)}
    /\ UNCHANGED <<start_drivers_, candidates, best, verdict, written, failed, threads>>

\* ------------------------------------------------------------ commit
\* lines 141-144: the number of unit names one command line takes (the
\* FIXME's sysconf(_SC_ARG_MAX)), scaled to the devices of the model: one
\* less than a commit() can have to pass
ArgMax == Cardinality(Devices) - 1

\* what a subprocess can answer: it ran and returned 0, it ran and returned
\* non-zero, it could not be run
Outcomes == {"ok", "failed", "cantrun"}

\* a systemctl that runs one subprocess per unit
RECURSIVE systemctl_PerUnit(_, _, _)
systemctl_PerUnit(operation, units, outcome) ==
    IF units = {} THEN <<>>
    ELSE LET u == CHOOSE x \in units : TRUE
         IN  << [argv |-> <<"sudo", "systemctl", operation>>, units |-> {u},
                 result |-> outcome] >>
             \o systemctl_PerUnit(operation, units \ {u}, outcome)

\* NUTConfigurator::systemctl(operation, first, last): the subprocesses it
\* runs, none for an empty range
systemctl(operation, units, outcome) ==
    IF units = {} THEN <<>>
    ELSE << [argv |-> <<"sudo", "systemctl", operation>>, units |-> units,
             result |-> outcome] >>

\* NUTConfigurator::updateNUTConfig()
updateNUTConfig(outcome) ==
    << [argv |-> <<"sudo", "fty-nutconfig">>, units |-> {}, result |-> outcome] >>

\* a commit() that reloads nut-server whether or not a driver changed
CommitCalls_AlwaysReload(stop, start, o) ==
    systemctl("disable", stop, o[1])
    \o systemctl("stop", stop, o[2])
    \o updateNUTConfig(o[3])
    \o systemctl("restart", start, o[4])
    \o systemctl("enable", start, o[5])
    \o systemctl("reload-or-restart", {"nut-server"}, o[6])

\* a commit() that regenerates the configuration before it stops the
\* drivers of the erased devices
CommitCalls_HelperFirst(stop, start, o) ==
    updateNUTConfig(o[3])
    \o systemctl("disable", stop, o[1])
    \o systemctl("stop", stop, o[2])
    \o systemctl("restart", start, o[4])
    \o systemctl("enable", start, o[5])
    \o (IF stop # {} \/ start # {}
        THEN systemctl("reload-or-restart", {"nut-server"}, o[6]) ELSE <<>>)

\* lines 353-359: the subprocesses of one commit(), in the order they are run
CommitCalls(stop, start, o) ==
    systemctl("disable", stop, o[1])
    \o systemctl("stop", stop, o[2])
    \o updateNUTConfig(o[3])
    \o systemctl("restart", start, o[4])
    \o systemctl("enable", start, o[5])
    \o (IF stop # {} \/ start # {}
        THEN systemctl("reload-or-restart", {"nut-server"}, o[6]) ELSE <<>>)

\* a commit() that forgets to clear stop_drivers_
commit_KeepStop(o) ==
    /\ calls' = CommitCalls(stop_drivers_, start_drivers_, o)
    /\ stop_drivers_' = stop_drivers_
    /\ start_drivers_' = {}
    /\ written' = {} /\ failed' = {} /\ erased' = {}
    /\ UNCHANGED <<files, last, candidates, best, verdict, threads>>

\* a commit() that keeps its sets for a retry when a subprocess failed
commit_KeepOnFailure(o) ==
    LET cs == CommitCalls(stop_drivers_, start_drivers_, o)
        allOk == \A i \in 1..Len(cs) : cs[i].result = "ok"
    IN  /\ calls' = cs
        /\ stop_drivers_' = IF allOk THEN {} ELSE stop_drivers_
        /\ start_drivers_' = IF allOk THEN {} ELSE start_drivers_
        /\ written' = {} /\ failed' = {} /\ erased' = {}
        /\ UNCHANGED <<files, last, candidates, best, verdict, threads>>

\* NUTConfigurator::commit(), the subprocesses answering o[1]..o[6]
commit(o) ==
    /\ calls' = CommitCalls(stop_drivers_, start_drivers_, o)
    /\ stop_drivers_' = {}
    /\ start_drivers_' = {}
    /\ written' = {} /\ failed' = {} /\ erased' = {}
    /\ UNCHANGED <<files, last, candidates, best, verdict, threads>>

\* ------------------------------------------------------------ Spec
NoScan == <<>>

ProbeInfo(ip, snmp, xml) ==
    [hasBlock |-> FALSE, block |-> <<>>, IP |-> ip, snmp |-> snmp, xml |-> xml]

BlockInfo(block) ==
    [hasBlock |-> TRUE, block |-> block, IP |-> "", snmp |-> <<>>, xml |-> <<>>]

EpduPw(name) == MkCand(name, <<"snmp-ups">>, EpduDesc, <<"pw">>)
SnmpIetf(name) == MkCand(name, <<"snmp-ups">>, <<>>, <<"ietf">>)
SnmpBare(name) == MkCand(name, <<"snmp-ups">>, <<>>, <<>>)
XmlUps(name) == MkCand(name, <<"netxml-ups">>, <<>>, <<>>)

NoAddress == ProbeInfo("", <<>>, <<>>)

NothingFound == ProbeInfo("10.0.0.1", <<[rc |-> -1, found |-> <<>>]>>, <<>>)

\* an SNMP EPDU that answers the second community only
FoundEpdu(name) ==
    ProbeInfo("10.0.0.1", <<[rc |-> -1, found |-> <<>>],
                            [rc |-> 0, found |-> <<EpduPw(name)>>]>>, <<>>)

\* two candidates selectBest picks none of
FoundUnusable(name) ==
    ProbeInfo("10.0.0.1",
              <<[rc |-> 0, found |-> <<SnmpBare(name), SnmpBare(name)>>]>>, <<>>)

\* the assets configure() is called with in Spec
Infos(name) == {NoAddress, FoundEpdu(name)}

\* the assets configure() is called with in SpecConfigure
AllInfos(name) ==
    {NoAddress, NothingFound, FoundEpdu(name), FoundUnusable(name)}

\* a candidate that names both drivers
BothDrivers(name) ==
    MkCand(name, <<"snmp-ups">>, EpduDesc, <<"pw">>)
    \o Line("driver", <<"netxml-ups">>)

\* the texts configure() renders in SpecRender
RenderCandidates(name) == Candidates(name) \cup {BothDrivers(name)}

\* the assets of SpecRender: probing finds one candidate
ScanInfos(name) ==
    {ProbeInfo("10.0.0.1", <<[rc |-> 0, found |-> <<c>>]>>, <<>>) :
        c \in RenderCandidates(name)}

\* the characters of the exhaustive upsconf_block inputs
BlockChars == {"|", "[", "A", NUL}

\* the upsconf_blocks configure() is called with in SpecBlock: every block
\* of at most MaxBlockLen characters, and four longer ones
Blocks ==
    (SeqsUpTo(BlockChars, MaxBlockLen) \ {<<>>})
    \cup {<<"|", "A", "|", "B", "=", "1">>,
          <<"|", "A", "|", "B", "=", "1", "|">>,
          <<"A", NL, "B", "=", "1", NL>>,
          <<";", "[", "x", "]", ";", "A", ";", "B", "=", "1">>}

BlockInfos == {BlockInfo(b) : b \in Blocks}

Pollings == {"30", "60"}

\* the answers of the six subprocesses of a commit(): all "ok", or one of
\* them failing or not running
AllOk == [i \in 1..6 |-> "ok"]

Answers ==
    {AllOk} \cup {[AllOk EXCEPT ![i] = r] : i \in 1..6, r \in Outcomes \ {"ok"}}

\* every argument list configure() is called with, and Prepare of each
ConfigureArgs ==
    {<<name, info, polling>> : name \in Devices, info \in UNION {AllInfos(n) \cup ScanInfos(n) : n \in Devices}
                                        \cup BlockInfos,
                                polling \in Pollings}

Prepared == [a \in ConfigureArgs |-> Prepare(a[1], a[2], a[3])]

\* lines 297-338, for what Prepare computed (p) and the digest of the file
\* the device has: the write decision, the write, the insert into
\* start_drivers_ and the value returned
Conclude(name, info, polling, p, digest_old, canWrite) ==
    LET digest_new == s_digest(p.cfg)
        write == ReachesWrite(p.early) /\ ShouldWrite(digest_old, digest_new)
    IN  /\ files' = IF write /\ canWrite
                    THEN [d \in DOMAIN files \cup {name} |->
                            IF d = name THEN p.cfg ELSE files[d]]
                    ELSE files
        /\ start_drivers_' = IF write
                             THEN start_drivers_ \cup {ServiceOf(name)}
                             ELSE start_drivers_
        /\ last' = [op |-> "configure", name |-> name,
                    hasBlock |-> info.hasBlock, block |-> info.block,
                    IP |-> info.IP,
                    configs |-> p.configs, polling |-> polling, it |-> p.it,
                    cfg |-> p.cfg,
                    opened |-> (p.early = "" /\ digest_old # NULL),
                    wrote |-> write,
                    ret |-> (IF p.early = "" THEN "true" ELSE p.early),
                    flip |-> ~last.flip]
        /\ calls' = <<>>
        /\ written' = IF write /\ canWrite
                      THEN written \cup {ServiceOf(name)} ELSE written
        /\ failed' = IF write /\ ~canWrite
                     THEN failed \cup {ServiceOf(name)} ELSE failed
        /\ UNCHANGED <<stop_drivers_, candidates, best, verdict, erased, threads>>

\* NUTConfigurator::configure(name, info), with the polling interval read
\* from fty-nut.cfg, and what the file system answers: canOpen (the old
\* file, when there is one, can be opened for reading) and canWrite (the
\* ofstream opens and takes the text)
configure(name, info, polling, canOpen, canWrite) ==
    Conclude(name, info, polling, Prepared[<<name, info, polling>>],
             s_digest_file(name, canOpen), canWrite)

Init ==
    /\ files = <<>>
    /\ start_drivers_ = {}
    /\ stop_drivers_ = {}
    /\ calls = <<>>
    /\ last = NoCall
    /\ candidates = <<>>
    /\ best = 0
    /\ verdict = <<>>
    /\ written = {} /\ failed = {} /\ erased = {}
    /\ pc = Idle /\ lost = {} /\ overlap = FALSE

Configure ==
    \E name \in Devices : \E info \in Infos(name) : \E polling \in Pollings :
    \E canOpen \in BOOLEAN : \E canWrite \in BOOLEAN :
        configure(name, info, polling, canOpen, canWrite)

Erase == \E name \in Devices : erase(name)

Commit == \E o \in Answers : commit(o)

Next == Configure \/ Erase \/ Commit

Spec == Init /\ [][Next]_vars

\* ------------------------------------------------------------ SpecConfigure
\* configure() over every kind of asset; the subprocesses of commit() all
\* answer "ok"
ConfigureAny ==
    \E name \in Devices : \E info \in AllInfos(name) : \E polling \in Pollings :
    \E canOpen \in BOOLEAN : \E canWrite \in BOOLEAN :
        configure(name, info, polling, canOpen, canWrite)

CommitOk == commit(AllOk)

NextConfigure == ConfigureAny \/ Erase \/ CommitOk

SpecConfigure == Init /\ [][NextConfigure]_vars

\* ------------------------------------------------------------ SpecBlock
\* one configure() of an asset that brings its upsconf_block
ConfigureBlock ==
    /\ last.op = "none"
    /\ \E name \in Devices : \E info \in BlockInfos : \E polling \in Pollings :
           configure(name, info, polling, TRUE, TRUE)

SpecBlock == Init /\ [][ConfigureBlock]_vars

\* ------------------------------------------------------------ SpecRender
\* one configure() of an asset for which probing found one candidate
ConfigureScan ==
    /\ last.op = "none"
    /\ \E name \in Devices : \E info \in ScanInfos(name) : \E polling \in Pollings :
           configure(name, info, polling, TRUE, TRUE)

SpecRender == Init /\ [][ConfigureScan]_vars

\* ------------------------------------------------------------ SpecSelect
\* one selectBest call on a candidate list of at most MaxConfigs candidates
InitSelect ==
    /\ files = <<>>
    /\ start_drivers_ = {}
    /\ stop_drivers_ = {}
    /\ calls = <<>>
    /\ last = NoCall
    /\ candidates \in SeqsUpTo(Candidates("ups1"), MaxConfigs)
    /\ best = 0
    /\ verdict = <<>>
    /\ written = {} /\ failed = {} /\ erased = {}
    /\ pc = Idle /\ lost = {} /\ overlap = FALSE

SelectBest ==
    /\ best = 0
    /\ best' = selectBest(candidates)
    /\ UNCHANGED <<files, start_drivers_, stop_drivers_, calls, last, candidates,
                   verdict, written, failed, erased, threads>>

SpecSelect == InitSelect /\ [][SelectBest]_vars

\* ------------------------------------------------------------ SpecClassify
\* one isEpdu call on a candidate list of at most MaxConfigs candidates
InitClassify ==
    /\ files = <<>>
    /\ start_drivers_ = {}
    /\ stop_drivers_ = {}
    /\ calls = <<>>
    /\ last = NoCall
    /\ candidates \in SeqsUpTo(ClassifyCandidates("ups1"), MaxConfigs)
    /\ best = 0
    /\ verdict = <<>>
    /\ written = {} /\ failed = {} /\ erased = {}
    /\ pc = Idle /\ lost = {} /\ overlap = FALSE

IsEpdu ==
    /\ verdict = <<>>
    /\ verdict' = <<isEpdu(candidates)>>
    /\ UNCHANGED <<files, start_drivers_, stop_drivers_, calls, last, candidates,
                   best, written, failed, erased, threads>>

SpecClassify == InitClassify /\ [][IsEpdu]_vars

\* ------------------------------------------------------------ SpecConcurrent
\* commit() in one thread, configure() and erase() in another, with nothing
\* that serializes them: a step is one line of commit(), the part of
\* configure() up to the write decision, its write, its insert, or one of
\* the two lines of erase().  pc holds the line a thread executes next.
NextLine(l) ==
    CASE l = 353 -> 354
      [] l = 354 -> 355
      [] l = 355 -> 356
      [] l = 356 -> 357
      [] l = 357 -> 358
      [] l = 358 -> 360
      [] l = 360 -> 361
      [] OTHER -> 0

\* a commit() that restarts nothing
LineCalls_NoRestart(l) ==
    CASE l = 353 -> systemctl("disable", stop_drivers_, "ok")
      [] l = 354 -> systemctl("stop", stop_drivers_, "ok")
      [] l = 355 -> updateNUTConfig("ok")
      [] l = 357 -> systemctl("enable", start_drivers_, "ok")
      [] l = 358 -> IF stop_drivers_ # {} \/ start_drivers_ # {}
                    THEN systemctl("reload-or-restart", {"nut-server"}, "ok")
                    ELSE <<>>
      [] OTHER -> <<>>

\* the subprocesses line l of commit() runs, on the sets as they are when
\* the line is executed
LineCalls(l) ==
    CASE l = 353 -> systemctl("disable", stop_drivers_, "ok")
      [] l = 354 -> systemctl("stop", stop_drivers_, "ok")
      [] l = 355 -> updateNUTConfig("ok")
      [] l = 356 -> systemctl("restart", start_drivers_, "ok")
      [] l = 357 -> systemctl("enable", start_drivers_, "ok")
      [] l = 358 -> IF stop_drivers_ # {} \/ start_drivers_ # {}
                    THEN systemctl("reload-or-restart", {"nut-server"}, "ok")
                    ELSE <<>>
      [] OTHER -> <<>>

\* the units the restart calls of cs were given
Restarted(cs) ==
    UNION {cs[i].units :
             i \in {j \in 1..Len(cs) :
                       cs[j].argv = <<"sudo", "systemctl", "restart">>}}

\* both threads stand in a call
BothUnderWay(p) == p.commit # 0 /\ p.worker # 0

\* one line of commit(), lines 353-361
CommitLine ==
    LET l == IF pc.commit = 0 THEN 353 ELSE pc.commit
    IN  /\ calls' = (IF l = 353 THEN <<>> ELSE calls) \o LineCalls(l)
        /\ stop_drivers_' = IF l = 360 THEN {} ELSE stop_drivers_
        /\ start_drivers_' = IF l = 361 THEN {} ELSE start_drivers_
        /\ lost' = IF l = 361
                   THEN lost \cup (start_drivers_ \ Restarted(calls))
                   ELSE lost
        /\ pc' = [pc EXCEPT !.commit = NextLine(l)]
        /\ overlap' = (overlap \/ BothUnderWay(pc'))
        /\ UNCHANGED <<files, last, candidates, best, verdict,
                       written, failed, erased>>

\* the write decision of configure(name, ...) for what Prepare computed (p)
\* and the digest of the file the device has
Decide(name, p, digest_old) ==
    /\ pc' = [pc EXCEPT
                !.worker = IF ReachesWrite(p.early)
                              /\ ShouldWrite(digest_old, s_digest(p.cfg))
                           THEN 328 ELSE 0,
                !.name = name]
    /\ overlap' = (overlap \/ BothUnderWay(pc'))
    /\ UNCHANGED <<files, start_drivers_, stop_drivers_, calls, last,
                   candidates, best, verdict, written, failed, erased, lost>>

\* configure(name, ...) of a device probing finds an EPDU for, lines 209-327
ConfigureBegin(name) ==
    /\ pc.worker = 0
    /\ Decide(name, Prepared[<<name, FoundEpdu(name), "30">>],
              s_digest_file(name, TRUE))

\* lines 328-332
ConfigureWrite ==
    /\ pc.worker = 328
    /\ files' = [d \in DOMAIN files \cup {pc.name} |->
                    IF d = pc.name
                    THEN Prepared[<<pc.name, FoundEpdu(pc.name), "30">>].cfg
                    ELSE files[d]]
    /\ pc' = [pc EXCEPT !.worker = 334]
    /\ UNCHANGED <<start_drivers_, stop_drivers_, calls, last, candidates, best,
                   verdict, written, failed, erased, lost, overlap>>

\* line 334
ConfigureInsert ==
    /\ pc.worker = 334
    /\ start_drivers_' = start_drivers_ \cup {ServiceOf(pc.name)}
    /\ pc' = [pc EXCEPT !.worker = 0]
    /\ UNCHANGED <<files, stop_drivers_, calls, last, candidates, best,
                   verdict, written, failed, erased, lost, overlap>>

\* erase(name), line 347
EraseRemove(name) ==
    /\ pc.worker = 0
    /\ files' = [d \in DOMAIN files \ {name} |-> files[d]]
    /\ pc' = [pc EXCEPT !.worker = 348, !.name = name]
    /\ overlap' = (overlap \/ BothUnderWay(pc'))
    /\ UNCHANGED <<start_drivers_, stop_drivers_, calls, last, candidates, best,
                   verdict, written, failed, erased, lost>>

\* line 348
EraseInsert ==
    /\ pc.worker = 348
    /\ stop_drivers_' = stop_drivers_ \cup {ServiceOf(pc.name)}
    /\ pc' = [pc EXCEPT !.worker = 0]
    /\ UNCHANGED <<files, start_drivers_, calls, last, candidates, best,
                   verdict, written, failed, erased, lost, overlap>>

NextConcurrent ==
    \/ CommitLine
    \/ \E name \in Devices : ConfigureBegin(name)
    \/ ConfigureWrite
    \/ ConfigureInsert
    \/ \E name \in Devices : EraseRemove(name)
    \/ EraseInsert

SpecConcurrent == Init /\ [][NextConcurrent]_vars

\* ============================================================ claims
\* the operation of a subprocess: the last word of its command line
Verb(c) == c.argv[Len(c.argv)]

\* the place of an operation in the order of section 4.5
Rank(c) ==
    CASE Verb(c) = "disable" -> 1
      [] Verb(c) = "stop" -> 2
      [] Verb(c) = "fty-nutconfig" -> 3
      [] Verb(c) = "restart" -> 4
      [] Verb(c) = "enable" -> 5
      [] Verb(c) = "reload-or-restart" -> 6
      [] OTHER -> 0

HasVerb(cs, v) == \E i \in 1..Len(cs) : Verb(cs[i]) = v

\* cs is what a commit() of the sets stop and start has to run
InOrder(cs, stop, start) ==
    /\ \A i \in 1..Len(cs) : Rank(cs[i]) > 0
    /\ \A i \in 1..Len(cs) : \A j \in 1..Len(cs) :
           i < j => Rank(cs[i]) < Rank(cs[j])
    /\ \A i \in 1..Len(cs) :
           /\ Rank(cs[i]) \in {1, 2} => cs[i].units = stop
           /\ Rank(cs[i]) \in {4, 5} => cs[i].units = start
           /\ Rank(cs[i]) = 6 => cs[i].units = {"nut-server"} /\ i = Len(cs)
    /\ HasVerb(cs, "fty-nutconfig")
    /\ stop # {} => HasVerb(cs, "disable") /\ HasVerb(cs, "stop")
    /\ start # {} => HasVerb(cs, "restart") /\ HasVerb(cs, "enable")
    /\ (stop # {} \/ start # {}) => HasVerb(cs, "reload-or-restart")

\* C1: every commit() runs its subprocesses in the order disable, stop (both
\* on the stop set), the regeneration helper, restart, enable (both on the
\* start set), reload-or-restart of nut-server last: disable and stop of the
\* erased devices come before the helper, restart and enable of the written
\* devices after it.
C1_CommitOrder ==
    [][calls' # <<>> => InOrder(calls', stop_drivers_, start_drivers_)]_vars

\* a commit() of two non-empty sets has run its six subprocesses
C1_Witness ==
    /\ Len(calls) = 6
    /\ Verb(calls[1]) = "disable" /\ calls[1].units # {}
    /\ Verb(calls[3]) = "fty-nutconfig"
    /\ Verb(calls[4]) = "restart" /\ calls[4].units # {}

\* C2: when commit() has returned, start_drivers_ and stop_drivers_ are
\* empty, whatever its subprocesses answered.
C2_CommitClears ==
    calls # <<>> => start_drivers_ = {} /\ stop_drivers_ = {}

\* a commit() of two non-empty sets has returned, one of its systemctl calls
\* having failed or not run
C2_Witness ==
    /\ Len(calls) = 6
    /\ \E i \in 1..Len(calls) : calls[i].result # "ok"
    /\ start_drivers_ = {} /\ stop_drivers_ = {}

\* ---- configure()
\* the step is a configure() call (every call turns last.flip)
ConfigureStep == last' # last /\ last'.op = "configure"

\* the call selected a candidate
Selected(l) == l.op = "configure" /\ l.it \in 1..Len(l.configs)

\* the file of the call's device holds the text the call rendered
FileHolds(l) == l.name \in DOMAIN files /\ files[l.name] = l.cfg

Writes(l) == IF l.wrote THEN 1 ELSE 0

\* C3: of two consecutive configure() calls for one device with the same
\* probing results and the same polling interval, the first of which wrote
\* the file, the second (which can read that file) finds equal hashes,
\* writes nothing and adds nothing to start_drivers_, also when a commit()
\* came in between: the two calls make exactly one disk write.
C3_Idempotent ==
    [][(/\ ConfigureStep
        /\ Selected(last) /\ last.wrote /\ FileHolds(last)
        /\ last'.name = last.name
        /\ last'.configs = last.configs
        /\ last'.polling = last.polling
        /\ last'.opened)
       => (/\ ~last'.wrote
           /\ Writes(last) + Writes(last') = 1
           /\ files' = files
           /\ start_drivers_' = start_drivers_)]_vars

\* a configure() has read the file an earlier one wrote and left it alone,
\* a commit() having emptied start_drivers_ in between
C3_Witness ==
    /\ Selected(last) /\ last.opened /\ ~last.wrote
    /\ FileHolds(last)
    /\ start_drivers_ = {}

\* C4: a configure() that selected a candidate writes the rendered text iff
\* it could not open a previous file of the device or the hash of that file
\* differs from the hash of the text; a missing file is never opened, so the
\* first configure() of a new device writes.
C4_WriteIffChanged ==
    [][(ConfigureStep /\ Selected(last'))
       => LET n == last'.name
              text == last'.cfg
          IN  /\ last'.opened => n \in DOMAIN files
              /\ last'.wrote <=>
                    (~last'.opened \/ s_digest_file(n, TRUE) # s_digest(text))
              /\ n \notin DOMAIN files => last'.wrote
              /\ ~last'.wrote => files' = files
              /\ last'.wrote =>
                    \/ files' = files
                    \/ /\ DOMAIN files' = DOMAIN files \cup {n}
                       /\ files'[n] = text
                       /\ \A d \in DOMAIN files \ {n} : files'[d] = files[d]]_vars

\* a configure() has opened a file of other content and replaced it
C4_Witness ==
    /\ Selected(last) /\ last.opened /\ last.wrote
    /\ FileHolds(last)

\* the cases of C5
NoAddressCase(l) == l.op = "configure" /\ ~l.hasBlock /\ l.IP = ""

NoCandidate(l) ==
    l.op = "configure" /\ ~l.hasBlock /\ l.IP # "" /\ l.configs = <<>>

SelectorNone(l) == l.op = "configure" /\ l.it = Len(l.configs) + 1

\* C5: configure() returns the value that asks for a retry (false, line 295)
\* when the device has neither upsconf_block nor address, when probing found
\* no candidate and when selectBest selected none, and then writes no file
\* and changes no set.
C5_RetrySignal ==
    [][(ConfigureStep
        /\ (NoAddressCase(last') \/ NoCandidate(last') \/ SelectorNone(last')))
       => (/\ last'.ret = "false"
           /\ ~last'.wrote
           /\ files' = files
           /\ start_drivers_' = start_drivers_
           /\ stop_drivers_' = stop_drivers_)]_vars

\* C6: a configure() whose selection failed leaves the files of all devices,
\* start_drivers_ and stop_drivers_ as they were.
C6_FailedSelectionFrame ==
    [][(ConfigureStep /\ SelectorNone(last'))
       => (/\ last'.ret = "false"
           /\ files' = files
           /\ start_drivers_' = start_drivers_
           /\ stop_drivers_' = stop_drivers_)]_vars

\* selectBest has selected none of two candidates while every device has a
\* file and both sets hold a service
C6_Witness ==
    /\ SelectorNone(last) /\ Len(last.configs) = 2 /\ last.ret = "false"
    /\ DOMAIN files = Devices
    /\ start_drivers_ # {} /\ stop_drivers_ # {}

\* ---- selectBest
AnyXml == \E i \in 1..Len(candidates) : NUTConfigXMLPattern(candidates[i])
AnySnmp == \E i \in 1..Len(candidates) : NUTConfigCanSnmpPattern(candidates[i])
AnyEpdu == \E i \in 1..Len(candidates) : NUTConfigEpduPattern(candidates[i])
AnyAts == \E i \in 1..Len(candidates) : NUTConfigATSPattern(candidates[i])

\* C7: of a list of one candidate selectBest returns that candidate, of the
\* empty list it returns end(), whatever the candidate holds.
C7_SingleCandidate ==
    best # 0 =>
        /\ Len(candidates) = 1 => best = 1
        /\ Len(candidates) = 0 => best = Len(candidates) + 1

\* the only candidate was returned though it names no driver that a rule of
\* selectBest looks for and no MIB
C7_Witness ==
    /\ best = 1 /\ Len(candidates) = 1
    /\ ~AnyXml /\ ~AnySnmp
    /\ ~MibPattern(candidates[1], ".+")

\* C8: of a list that is XML-capable and not both SNMP-capable and EPDU or
\* ATS, selectBest returns the first candidate that matches the XML pattern.
C8_XmlFirst ==
    (best # 0 /\ AnyXml /\ ~(AnySnmp /\ (AnyEpdu \/ AnyAts))) =>
        /\ best \in 1..Len(candidates)
        /\ NUTConfigXMLPattern(candidates[best])
        /\ \A j \in 1..(best - 1) : ~NUTConfigXMLPattern(candidates[j])

\* the XML candidate was returned though an SNMP candidate with a MIB was
\* found before it
C8_Witness ==
    /\ Len(candidates) = 2 /\ best = 2
    /\ NUTConfigCanSnmpPattern(candidates[1])
    /\ MibPattern(candidates[1], ".+")
    /\ NUTConfigXMLPattern(candidates[2])

\* C9: of a list that holds an EPDU-classified SNMP candidate of MIB "pw"
\* and another candidate of MIB "mge", selectBest returns the first candidate
\* of MIB "pw", wherever it stands in the list.
C9_PwBeforeMge ==
    (best # 0 /\ \E i \in 1..Len(candidates) : \E j \in 1..Len(candidates) :
        /\ i # j
        /\ NUTConfigEpduPattern(candidates[i])
        /\ NUTConfigCanSnmpPattern(candidates[i])
        /\ MibPattern(candidates[i], "pw")
        /\ MibPattern(candidates[j], "mge")) =>
        /\ best \in 1..Len(candidates)
        /\ MibPattern(candidates[best], "pw")
        /\ \A k \in 1..(best - 1) : ~MibPattern(candidates[k], "pw")

\* the "pw" candidate was returned though the "mge" candidate stands first
C9_Witness ==
    /\ Len(candidates) = 2 /\ best = 2
    /\ MibPattern(candidates[1], "mge")
    /\ NUTConfigEpduPattern(candidates[2])
    /\ NUTConfigCanSnmpPattern(candidates[2])
    /\ MibPattern(candidates[2], "pw")

\* ---- upsconf_block
\* C10 as claimed: the block "A\nB=1\n" of "dev1" yields the candidate
\* "[dev1]\nA\nB=1\n", and a block that brings its bracketed header yields
\* itself with some characters replaced by newlines, none added or removed.
C10_AsClaimed ==
    /\ (last.hasBlock /\ last.name = "dev1"
        /\ last.block = <<"A", NL, "B", "=", "1", NL>>)
       => last.configs = << <<"[", "dev1", "]", NL, "A", NL, "B", "=", "1", NL>> >>
    /\ (last.hasBlock /\ last.ret = "true" /\ Len(last.block) >= 2
        /\ last.block[1] \notin {NUL, "["} /\ last.block[2] = "[")
       => /\ Len(last.configs) = 1
          /\ Len(last.configs[1]) = Len(last.block)
          /\ \A i \in 1..Len(last.block) :
                 last.configs[1][i] =
                     IF last.block[i] = last.block[1] THEN NL ELSE last.block[i]

\* C10, amended: the first character of the block is the separator;
\* configure() drops it, replaces its other occurrences by newlines and
\* appends one newline, and puts "[<name>]\n" in front unless what is left
\* starts with "[".  So "|A|B=1" of "dev1" yields "[dev1]\nA\nB=1\n".
C10_BlockCandidate ==
    (last.hasBlock /\ Len(last.block) >= 2
     /\ last.block[1] # NUL /\ last.block[2] # NUL) =>
        LET sep == last.block[1]
            n == Len(last.block) - 1
            body == [i \in 1..n |->
                        IF last.block[i + 1] = sep THEN NL ELSE last.block[i + 1]]
            hdr == IF body[1] = "[" THEN <<>> ELSE <<"[", last.name, "]", NL>>
            h == Len(hdr)
        IN  /\ last.ret = "true"
            /\ Len(last.configs) = 1
            /\ Len(last.configs[1]) = h + n + 1
            /\ \A i \in 1..h : last.configs[1][i] = hdr[i]
            /\ \A i \in 1..n : last.configs[1][h + i] = body[i]
            /\ last.configs[1][h + n + 1] = NL
            /\ (last.name = "dev1" /\ last.block = <<"|", "A", "|", "B", "=", "1">>)
               => last.configs[1] =
                      <<"[", "dev1", "]", NL, "A", NL, "B", "=", "1", NL>>

\* the block "|A|B=1" of "dev1" has become the candidate "[dev1]\nA\nB=1\n"
C10_Witness ==
    /\ last.hasBlock /\ last.name = "dev1"
    /\ last.block = <<"|", "A", "|", "B", "=", "1">>
    /\ last.configs = << <<"[", "dev1", "]", NL, "A", NL, "B", "=", "1", NL>> >>

\* ---- rendering
\* the text of the candidate the most recent configure() selected
SelectedText == last.configs[last.it]

SyncLine == <<TAB, "synchronous", SP, "=", SP, "yes", NL>>

TimeoutLine == <<TAB, "timeout", SP, "=", SP, "15", NL>>

PollLine(key) == <<TAB, key, SP, "=", SP, last.polling, NL>>

\* C11: the rendered text is the selected candidate's text, then a
\* "synchronous = yes" line iff that candidate matches the SNMP and the EPDU
\* pattern, then a "timeout = 15" line iff it matches the XML pattern, then
\* one polling line with the polling interval: pollfreq if it matches the
\* SNMP pattern, pollinterval otherwise.
C11_Rendered ==
    Selected(last) =>
        last.cfg =
            SelectedText
            \o (IF NUTConfigCanSnmpPattern(SelectedText)
                   /\ NUTConfigEpduPattern(SelectedText)
                THEN SyncLine ELSE <<>>)
            \o (IF NUTConfigXMLPattern(SelectedText) THEN TimeoutLine ELSE <<>>)
            \o (IF NUTConfigCanSnmpPattern(SelectedText)
                THEN PollLine("pollfreq") ELSE PollLine("pollinterval"))

\* an SNMP ATS candidate that is no EPDU was rendered with its pollfreq line
\* and no synchronous line
C11_Witness ==
    /\ Selected(last)
    /\ NUTConfigCanSnmpPattern(SelectedText)
    /\ NUTConfigATSPattern(SelectedText)
    /\ ~NUTConfigEpduPattern(SelectedText)
    /\ last.cfg = SelectedText \o PollLine("pollfreq")

\* ---- batches
\* the units the calls of operation v in cs were given
UnitsOf(cs, v) ==
    UNION {cs[i].units : i \in {j \in 1..Len(cs) : Verb(cs[j]) = v}}

\* C12: between commits (calls serialized, every write taking effect),
\* start_drivers_ is the set of services of the devices whose file
\* configure() wrote since the last commit() and stop_drivers_ that of the
\* devices erase() was called on since then; a commit() restarts and
\* enables exactly the former, disables and stops exactly the latter, and
\* leaves both sets empty, so that no service of an earlier batch is acted
\* on again.
C12_BatchSets ==
    [][/\ stop_drivers_ = erased
       /\ start_drivers_ = written \cup failed
       /\ failed = {} => start_drivers_ = written
       /\ calls' # <<>> =>
            /\ failed = {} =>
                  /\ UnitsOf(calls', "restart") = written
                  /\ UnitsOf(calls', "enable") = written
            /\ UnitsOf(calls', "disable") = erased
            /\ UnitsOf(calls', "stop") = erased
            /\ start_drivers_' = {} /\ stop_drivers_' = {}]_vars

\* a commit() has restarted and enabled the service of "ups1" alone, while
\* the file of "dev1", written before an earlier commit(), is in the store
C12_Witness ==
    /\ Len(calls) = 4
    /\ Verb(calls[2]) = "restart" /\ calls[2].units = {ServiceOf("ups1")}
    /\ Verb(calls[3]) = "enable" /\ calls[3].units = {ServiceOf("ups1")}
    /\ DOMAIN files = Devices

\* ---- invocations of one commit()
ServiceVerbs == {"disable", "stop", "restart", "enable", "reload-or-restart"}

CountVerb(cs, v) == Cardinality({i \in 1..Len(cs) : Verb(cs[i]) = v})

\* the set a commit() of stop and start gives to operation v
SetOf(v, stop, start) ==
    CASE v \in {"disable", "stop"} -> stop
      [] v \in {"restart", "enable"} -> start
      [] OTHER -> {"nut-server"}

\* C13: a commit() invokes systemctl at most once per operation, each
\* invocation with the whole set of that operation, and not at all for an
\* empty set: it runs at most six subprocesses, however many devices there
\* are.
C13_OncePerVerb ==
    [][calls' # <<>> =>
         /\ \A v \in ServiceVerbs : CountVerb(calls', v) <= 1
         /\ \A i \in 1..Len(calls') :
                Verb(calls'[i]) \in ServiceVerbs =>
                    /\ calls'[i].units = SetOf(Verb(calls'[i]), stop_drivers_, start_drivers_)
                    /\ calls'[i].units # {}
         /\ stop_drivers_ = {} =>
                ~HasVerb(calls', "disable") /\ ~HasVerb(calls', "stop")
         /\ start_drivers_ = {} =>
                ~HasVerb(calls', "restart") /\ ~HasVerb(calls', "enable")
         /\ Len(calls') <= 6]_vars

\* a commit() has restarted the services of all devices in one invocation
C13_Witness ==
    /\ CountVerb(calls, "restart") = 1
    /\ \E i \in 1..Len(calls) :
           /\ Verb(calls[i]) = "restart"
           /\ calls[i].units = {ServiceOf(d) : d \in Devices}
    /\ Cardinality(Devices) > 1

\* C14: no systemctl invocation of a commit() carries more unit names than
\* the command line takes; a longer set is split into several invocations
\* that together carry the whole set, all those of one operation before any
\* of the next.
C14_Chunked ==
    [][calls' # <<>> =>
         /\ \A i \in 1..Len(calls') : Cardinality(calls'[i].units) <= ArgMax
         /\ \A i \in 1..Len(calls') : \A j \in 1..Len(calls') :
                i < j => Rank(calls'[i]) <= Rank(calls'[j])
         /\ \A v \in ServiceVerbs \ {"reload-or-restart"} :
                UnitsOf(calls', v) = SetOf(v, stop_drivers_, start_drivers_)]_vars

\* C15: a commit() reloads or restarts nut-server iff start_drivers_ or
\* stop_drivers_ holds a service when it starts; with both empty it runs
\* the regeneration helper, once, and nothing else.
C15_ReloadIffChanged ==
    [][calls' # <<>> =>
         /\ HasVerb(calls', "reload-or-restart")
                <=> (start_drivers_ # {} \/ stop_drivers_ # {})
         /\ CountVerb(calls', "fty-nutconfig") = 1
         /\ (start_drivers_ = {} /\ stop_drivers_ = {}) =>
                /\ Len(calls') = 1
                /\ \A v \in ServiceVerbs : ~HasVerb(calls', v)]_vars

\* a commit() of two empty sets has run the helper and nothing else, after
\* an earlier batch wrote a file
C15_Witness ==
    /\ Len(calls) = 1 /\ Verb(calls[1]) = "fty-nutconfig"
    /\ files # <<>>

\* ---- failed writes
\* C16: a configure() that adds the service of its device to start_drivers_
\* has written the file of the device: when the write fails, the service is
\* not added.
C16_StartOnlyIfWritten ==
    [][(ConfigureStep /\ start_drivers_' # start_drivers_)
       => (/\ last'.name \in DOMAIN files'
           /\ files'[last'.name] = last'.cfg)]_vars

\* ---- isEpdu
\* s mentions one of the enumerated EPDU MIB names
RefersEpduMib(s) == \E k \in 1..Len(s) : Lower(s[k]) \in EpduMibs

\* position q of s is the quote that opens the value of a line of key
\* (with or without blanks around "=")
OpensValue(s, key, q) ==
    /\ s[q] = QUOTE
    /\ \E i \in 1..q :
           /\ IsBlank(s[i]) /\ Lower(s[i + 1]) = key
           /\ \A j \in (i + 2)..(q - 1) : IsBlank(s[j]) \/ s[j] = "="

\* position m of s is the quote that closes the value opened at q
ClosesValue(s, q, m) ==
    m > q /\ s[m] = QUOTE /\ \A j \in (q + 1)..(m - 1) : s[j] # QUOTE

\* the description of s contains "epdu"
DescContainsEpdu(s) ==
    \E q \in 1..Len(s) : OpensValue(s, "desc", q) /\
        \E m \in 1..Len(s) : ClosesValue(s, q, m) /\
            \E k \in (q + 1)..(m - 1) : HasEpdu(s[k])

\* C17 as claimed: isEpdu is true iff some candidate mentions one of the
\* enumerated EPDU MIB names or has a description that contains "epdu",
\* wherever in the description.
C17_AsClaimed ==
    verdict # <<>> =>
        (verdict[1] <=>
            \E c \in 1..Len(candidates) :
                RefersEpduMib(candidates[c]) \/ DescContainsEpdu(candidates[c]))

\* position q of s is the quote that opens the value of a line
\* <blank>key<blanks>=<blanks>", at least one blank on either side of "=",
\* the first blank at position from or later
AssignsFrom(s, key, q, from) ==
    /\ s[q] = QUOTE
    /\ \E i \in from..q : \E e \in (i + 3)..(q - 2) :
           /\ IsBlank(s[i]) /\ Lower(s[i + 1]) = key /\ s[e] = "="
           /\ \A j \in (i + 2)..(e - 1) : IsBlank(s[j])
           /\ \A j \in (e + 1)..(q - 1) : IsBlank(s[j])

AssignsAt(s, key, q) == AssignsFrom(s, key, q, 1)

\* s has a line mibs = "<name>", the name one of the enumerated EPDU MIBs
MibsNamesEpdu(s) ==
    \E q \in 1..Len(s) :
        /\ AssignsAt(s, "mibs", q)
        /\ q + 2 <= Len(s)
        /\ Lower(s[q + 1]) \in EpduMibs /\ s[q + 2] = QUOTE

\* s has a line desc = "<text>", the word epdu in the text with a space and
\* at least one more character on either side
DescHasEpduWord(s) ==
    \E q \in 1..Len(s) : AssignsAt(s, "desc", q) /\
        \E m \in 1..Len(s) : ClosesValue(s, q, m) /\
            \E k \in (q + 3)..(m - 3) :
                s[k - 1] = SP /\ Lower(s[k]) = "epdu" /\ s[k + 1] = SP

\* C17, amended: isEpdu is true iff some candidate has a line
\* mibs = "<name>" naming exactly one of the enumerated EPDU MIBs, or a line
\* desc = "<text>" whose text holds the word epdu between two spaces with at
\* least one character before and after (letter case ignored, at least one
\* blank on either side of "=").
C17_IsEpdu ==
    verdict # <<>> =>
        (verdict[1] <=>
            \E c \in 1..Len(candidates) :
                MibsNamesEpdu(candidates[c]) \/ DescHasEpduWord(candidates[c]))

\* isEpdu has returned true for a candidate that names no EPDU MIB and
\* whose description holds the word epdu in its middle
C17_Witness ==
    /\ verdict = <<TRUE>> /\ Len(candidates) = 1
    /\ DescHasEpduWord(candidates[1])
    /\ ~RefersEpduMib(candidates[1])

\* ---- the catch-all of getBestSnmpMib
\* selectBest of candidates goes to getBestSnmpMib (lines 118 and 125)
ReachesMibSearch ==
    /\ Len(candidates) >= 2
    /\ (AnySnmp /\ (AnyEpdu \/ AnyAts)) \/ ~AnyXml

\* C18 as claimed: of a list of two or more candidates, one of them
\* SNMP-capable, that reaches the MIB search, selectBest returns a candidate.
C18_AsClaimed ==
    (best # 0 /\ ReachesMibSearch /\ AnySnmp) => best \in 1..Len(candidates)

\* s has a line mibs = "<value>" with a non-empty value, at least one blank
\* on either side of "=" and at least one character before the line
HasMibsLine(s) ==
    \E q \in 1..Len(s) :
        /\ AssignsFrom(s, "mibs", q, 2)
        /\ \E m \in (q + 2)..Len(s) : s[m] = QUOTE

\* C18, amended: of a list that reaches the MIB search, selectBest returns a
\* candidate iff some candidate has a line mibs = "<value>"; it then returns
\* such a candidate.  An SNMP-capable candidate with no such line is not
\* found by the catch-all ".+", and a list of such candidates yields end().
C18_MibLineNeeded ==
    (best # 0 /\ ReachesMibSearch) =>
        /\ best \in 1..Len(candidates)
              <=> \E i \in 1..Len(candidates) : HasMibsLine(candidates[i])
        /\ best \in 1..Len(candidates) => HasMibsLine(candidates[best])

\* the catch-all has found the second candidate, of a MIB that is neither
\* "pw" nor "mge", the first being SNMP-capable with no mibs line
C18_Witness ==
    /\ Len(candidates) = 2 /\ best = 2 /\ ~AnyXml
    /\ NUTConfigCanSnmpPattern(candidates[1]) /\ ~HasMibsLine(candidates[1])
    /\ HasMibsLine(candidates[2])
    /\ ~MibPattern(candidates[2], "pw") /\ ~MibPattern(candidates[2], "mge")

\* ---- unserialized calls
\* C19: a commit() clears a service from start_drivers_ that it has not
\* restarted only if a configure()/erase() was under way while it ran
\* (serialized calls lose no service); unserialized, a configure() can insert
\* its service between the restart and the clear of a commit().
C19_LostOnlyByRace ==
    /\ lost # {} => overlap
    /\ (~overlap /\ pc.commit \in {357, 358, 360, 361})
          => start_drivers_ \subseteq Restarted(calls)

\* both calls have returned: the file of "ups1" is written, its service is
\* in no set, and the commit() that cleared it has neither restarted nor
\* enabled it
C19_Witness ==
    /\ pc.commit = 0 /\ pc.worker = 0
    /\ ServiceOf("ups1") \in lost
    /\ "ups1" \in DOMAIN files
    /\ start_drivers_ = {}
    /\ \A i \in 1..Len(calls) : ServiceOf("ups1") \notin calls[i].units

\* ---- a device in both sets
\* C20: the services a commit() restarts and enables are those of devices
\* whose file is in the store when it runs (every write of the batch having
\* taken effect): a device configured and then erased in one batch is
\* disabled and stopped, and not restarted and enabled after that.
C20_Converges ==
    [][(calls' # <<>> /\ failed = {}) =>
         \A d \in Devices :
             ServiceOf(d) \in UnitsOf(calls', "restart") \cup UnitsOf(calls', "enable")
                 => d \in DOMAIN files]_vars

====
